---- MODULE Spec2Model ----
(***************************************************************************)
(* Read-through weather cache of Articuno (the revision whose handler is   *)
(* rootHandler / getWeatherData with a one hour expiration).               *)
(*                                                                         *)
(* Strings that the program transforms (the submitted city, the cache key) *)
(* are sequences of one-character strings; opaque payloads (upstream       *)
(* bodies, stored values) are plain strings, "" being the empty string.    *)
(* Time is counted in half hours.                                          *)
(***************************************************************************)
EXTENDS Integers, Sequences, FiniteSets, TLC

\* ---------------------------------------------------------------- bounds
\* Number of request goroutines that may be in flight together.
NReq == 2
\* Last instant of the clock (in half hours).
MaxTime == 2
\* Number of requests served in one behaviour.
MaxPosts == 2

\* ------------------------------------------------------------- constants
\* time.Hour, the expiration passed to rdb.Set, in half hours.
Hour == 2
\* http.StatusOK, http.StatusNotFound.
StatusOK == 200
StatusNotFound == 404

Reqs == 1..NReq

\* Submitted form values of field "city".
Cities ==
  { <<>>, <<" ">>, <<"a">>, <<" ", "<">> }

\* Bodies the upstream may answer with a 200 (the empty body included).
Bodies == {"", "x"}
\* Value of an entry that was in the store before the server started
\* (the tests pre-populate the store with expiration 0).
SeedValue == "s"

\* ------------------------------------------------- input normalisation
\* html.EscapeString: the five characters it replaces.
EscapeChar(c) ==
  CASE c = "<"  -> <<"&", "l", "t", ";">>
    [] c = ">"  -> <<"&", "g", "t", ";">>
    [] c = "&"  -> <<"&", "a", "m", "p", ";">>
    [] c = "'"  -> <<"&", "#", "3", "9", ";">>
    [] c = "\"" -> <<"&", "#", "3", "4", ";">>
    [] OTHER    -> <<c>>

RECURSIVE EscapeString(_)
EscapeString(s) ==
  IF s = <<>> THEN <<>> ELSE EscapeChar(Head(s)) \o EscapeString(Tail(s))

\* unicode.IsSpace on the characters of the model.
IsSpace(c) == c \in {" ", "\t", "\n", "\r"}

RECURSIVE TrimLeft(_)
TrimLeft(s) ==
  IF s # <<>> /\ IsSpace(Head(s)) THEN TrimLeft(Tail(s)) ELSE s

RECURSIVE TrimRight(_)
TrimRight(s) ==
  IF s # <<>> /\ IsSpace(s[Len(s)])
    THEN TrimRight(SubSeq(s, 1, Len(s) - 1))
    ELSE s

\* strings.TrimSpace.
TrimSpace(s) == TrimRight(TrimLeft(s))

\* url.QueryEscape: unreserved characters stay, a space becomes "+",
\* every other byte becomes %XX.
QueryEscapeChar(c) ==
  CASE c = " "  -> <<"+">>
    [] c = "&"  -> <<"%", "2", "6">>
    [] c = ";"  -> <<"%", "3", "B">>
    [] c = "#"  -> <<"%", "2", "3">>
    [] c = "<"  -> <<"%", "3", "C">>
    [] c = ">"  -> <<"%", "3", "E">>
    [] c = "'"  -> <<"%", "2", "7">>
    [] c = "\"" -> <<"%", "2", "2">>
    [] c = "\t" -> <<"%", "0", "9">>
    [] c = "\n" -> <<"%", "0", "A">>
    [] c = "\r" -> <<"%", "0", "D">>
    [] OTHER    -> <<c>>

RECURSIVE QueryEscape(_)
QueryEscape(s) ==
  IF s = <<>> THEN <<>> ELSE QueryEscapeChar(Head(s)) \o QueryEscape(Tail(s))

\* A normaliser that forgets to trim.
NormalizeNoTrim(city) == QueryEscape(EscapeString(city))

\* city = url.QueryEscape(strings.TrimSpace(html.EscapeString(city)))
Normalize(city) == QueryEscape(TrimSpace(EscapeString(city)))

\* Keys the store is ever asked for.
Keys == { Normalize(c) : c \in Cities } \ { <<>> }


\* ------------------------------------------------------------ the store
\* An entry of the key-value store; exp = 0 is "no expiration".
NoEntry == [has |-> FALSE, val |-> "", exp |-> 0]

\* Whether the store still serves entry e at time t.
Live(e, t) == e.has /\ (e.exp = 0 \/ t < e.exp)

\* Value part of rdb.Get(ctx, key).Result(): the stored value, or "" when
\* the key is absent or expired (redis.Nil) or the command failed.
GetResult(st, k, t, ok) ==
  IF ok /\ Live(st[k], t) THEN st[k].val ELSE ""

\* An expiration of zero: the entry is kept forever.
ExpirationNone == 0 * Hour

\* An expiration that falls short of the hour.
ExpirationShort == Hour - 1

\* The expiration argument of rdb.Set.
Expiration == Hour

\* A write that lands under a key of its own.
SetKeyOther(k) == CHOOSE o \in Keys : o # k

\* The key argument of rdb.Set: the key that was read.
SetKey(k) == k

\* A write that stores nothing.
SetEntryEmpty(v, ttl, t) == [has |-> TRUE, val |-> "", exp |-> t + ttl]

\* Entry created by SET key value EX ttl at time t.
SetEntry(v, ttl, t) ==
  [has |-> TRUE, val |-> v, exp |-> IF ttl = 0 THEN 0 ELSE t + ttl]

\* ------------------------------------------------------------- upstream
\* What http.Get and io.ReadAll can produce.
Answer(neterr, status, readerr, body) ==
  [neterr |-> neterr, status |-> status, readerr |-> readerr, body |-> body]

UpstreamAnswers ==
  { Answer(TRUE, 0, FALSE, "") }
    \cup { Answer(FALSE, StatusNotFound, FALSE, "e") }
    \cup { Answer(FALSE, StatusOK, TRUE, "") }
    \cup { Answer(FALSE, StatusOK, FALSE, b) : b \in Bodies }

\* A fetch that only looks at the transport error.
FetchErrIgnoreStatus(a) ==
  IF a.neterr THEN "upstream" ELSE IF a.readerr THEN "body" ELSE "nil"

\* The error getWeatherData returns after http.Get and io.ReadAll.
FetchErr(a) ==
  IF a.neterr THEN "upstream"
  ELSE IF a.status # 200 THEN "upstream"
  ELSE IF a.readerr THEN "body"
  ELSE "nil"

\* ------------------------------------------------------ getWeatherData
\* A hit test that takes every answer of the store for a hit.
IsHitAlways(val) == TRUE

\* A hit test that never trusts the store.
IsHitNever(val) == FALSE

\* if val != "" { return val, nil }
IsHit(val) == val # ""

\* A check that also turns away every city with an escaped character.
KeyRejectedEscaped(key) ==
  key = <<>> \/ \E n \in 1..Len(key) : key[n] = "%"

\* if city == "" { return "", fmt.Errorf("city cannot be empty") }
KeyRejected(key) == key = <<>>

\* A fetch that is tried a second time when it failed.
RetryOnce(tries) == tries < 2

\* "return "", err" right after the failed step: nothing is tried again.
Retry(tries) == FALSE

\* The URL of fmt.Sprintf(".../timeline/%s?key=%s", city, apiKey).
Url(city, apiKey) ==
  <<"https://weather.visualcrossing.com/VisualCrossingWebServices/rest/services/timeline/">>
    \o city \o <<"?key=", apiKey>>

RECURSIVE UpTo(_, _)
UpTo(s, stop) ==
  IF s = <<>> \/ Head(s) = stop
    THEN <<>>
    ELSE <<Head(s)>> \o UpTo(Tail(s), stop)

\* The last path segment of such a URL: the location the upstream is asked
\* for.
PathToken(u) == UpTo(Tail(u), "?key=")

\* A write path that serves the fetched body whatever rdb.Set answered.
AfterSetServe(body, wok) == [data |-> body, err |-> "nil"]

\* err = rdb.Set(...).Err(); if err != nil { return "", err };
\* return string(weatherData), nil
AfterSet(body, wok) ==
  IF wok THEN [data |-> body, err |-> "nil"]
         ELSE [data |-> "", err |-> "write"]

\* ---------------------------------------------------------- rootHandler
NoResp ==
  [status |-> 0, ctype |-> "", text |-> "", payload |-> <<>>, echo |-> <<>>]

\* A handler that answers a failed lookup with the data it was given.
RespondAlwaysOK(city, data, err) ==
  [status |-> StatusOK, ctype |-> "text/json", text |-> "",
   payload |-> <<data, data>>, echo |-> EscapeString(city)]

\* The response of a POST: http.Error(w, "City not found", 404) when the
\* lookup returned an error, else the payload (written by w.Write and again
\* by Fprintf, with the escaped city) under an implicit 200.
Respond(city, data, err) ==
  IF err # "nil"
    THEN [status |-> StatusNotFound, ctype |-> "text/plain; charset=utf-8",
          text |-> "City not found", payload |-> <<>>, echo |-> <<>>]
    ELSE [status |-> StatusOK, ctype |-> "text/json", text |-> "",
          payload |-> <<data, data>>, echo |-> EscapeString(city)]

\* Request methods the server is sent.
Methods == {"GET", "POST"}

\* A dispatch that takes every request for a submission.
RendersNever(method) == FALSE

\* if r.Method != "POST": the form is rendered and nothing is looked up.
Renders(method) == method # "POST"

\* The response of any other method: the form, or nothing at all when the
\* template cannot be parsed.
RenderForm(parsed) ==
  [status |-> StatusOK, ctype |-> IF parsed THEN "text/html" ELSE "",
   text |-> IF parsed THEN "index.html" ELSE "", payload |-> <<>>,
   echo |-> <<>>]


\* ---------------------------------------------------------------- state
VARIABLES
  store,   \* the key-value store: key -> entry
  now,     \* the clock
  posted,  \* requests accepted so far
  pc,      \* where each request goroutine stands
  loc,     \* its locals: city, key (the normalised city), val, body
  io,      \* observer: the I/O the request issued and what it met
  seq,     \* observer: the request it directly follows
  wlog,    \* observer: the last write the service made under each key
  fin,     \* the request that was answered last, with its response
  proc     \* the process: its environment and how far main has come

vars == <<store, now, posted, pc, loc, io, seq, wlog, fin, proc>>

NoLoc == [method |-> "", city |-> <<>>, key |-> <<>>, val |-> "", body |-> ""]
NoRet == [data |-> "", err |-> "none"]
NoIO ==
  [reads |-> 0, ups |-> 0, writes |-> 0, rdok |-> FALSE, held |-> FALSE,
   seen |-> "", fresh |-> FALSE, wval |-> "", stale |-> FALSE,
   expd |-> FALSE, ans |-> "none", wok |-> FALSE, dirty |-> FALSE,
   steps |-> <<>>, rkey |-> <<>>, ukey |-> <<>>, wkey |-> <<>>,
   early |-> FALSE, raced |-> FALSE, rbody |-> "",
   ustatus |-> 0, ubody |-> ""]
NoSeq ==
  [some |-> FALSE, ok |-> FALSE, ups |-> 0, solo |-> FALSE, start |-> 0,
   pans |-> "none", prdok |-> FALSE, clean |-> FALSE]
NoWrite ==
  [n |-> 0, at |-> 0, val |-> "", by |-> <<>>,
   from |-> [status |-> 0, body |-> "", token |-> <<>>]]
NoFin == [loc |-> NoLoc, ret |-> NoRet, resp |-> NoResp, io |-> NoIO,
          seq |-> NoSeq]

Free(r) == pc[r] = "idle"
InFlight(r) == pc[r] # "idle"

\* The environment of the process: REDIS_URL is set, the store answers the
\* ping, WEATHER_API_KEY is set.
Envs == [url : BOOLEAN, ping : BOOLEAN, key : BOOLEAN]

\* A connection that is handed out without the ping.
GetRedisConnectionNoPing(env) == env.url

\* getRedisConnection: a client only when REDIS_URL is set and the ping
\* succeeds, else an error.
GetRedisConnection(env) == env.url /\ env.ping

\* startWebServer: refuses a nil client and an empty key.
StartWebServer(rdb, apiKey) == rdb /\ apiKey

\* main: exits when there is no connection or no key, else serves.
Main(env) ==
  IF ~GetRedisConnection(env) THEN "exited"
  ELSE IF ~env.key THEN "exited"
  ELSE IF StartWebServer(GetRedisConnection(env), env.key) THEN "serving"
  ELSE "refused"

\* Keys the store may already hold when the server starts.
SeedKeys == { Normalize(<<"a">>) }

\* The store as the server finds it: a seed key may hold an entry that was
\* put there with no expiration.
Init ==
  /\ \E S \in SUBSET SeedKeys :
       store = [k \in Keys |->
                  IF k \in S THEN SetEntry(SeedValue, 0, 0) ELSE NoEntry]
  /\ now = 0
  /\ posted = 0
  /\ pc = [r \in Reqs |-> "idle"]
  /\ loc = [r \in Reqs |-> NoLoc]
  /\ io = [r \in Reqs |-> NoIO]
  /\ seq = [r \in Reqs |-> NoSeq]
  /\ wlog = [k \in Keys |-> NoWrite]
  /\ fin = NoFin
  /\ \E env \in Envs : proc = [env |-> env, state |-> "start"]

\* main runs up to the point where the server listens, or exits.
Start ==
  /\ proc.state = "start"
  /\ proc' = [proc EXCEPT !.state = Main(proc.env)]
  /\ UNCHANGED <<store, now, posted, pc, loc, io, seq, wlog, fin>>

\* The server hands a new request to a goroutine of its own; which one is
\* immaterial, so it is the first free one.
Accepts(r) ==
  /\ proc.state = "serving"
  /\ Free(r)
  /\ \A o \in Reqs : Free(o) => r <= o
  /\ posted < MaxPosts

\* The kind of an upstream answer.
AnswerKind(a) ==
  IF a.neterr THEN "neterr"
  ELSE IF a.status # StatusOK THEN "status"
  ELSE IF a.readerr THEN "readerr"
  ELSE "ok"

\* The request ends: rootHandler answers with what getWeatherData returned,
\* and the goroutine is gone.
Finish(r, l, i, data, err) ==
  /\ pc' = [pc EXCEPT ![r] = "idle"]
  /\ loc' = [loc EXCEPT ![r] = NoLoc]
  /\ seq' = [seq EXCEPT ![r] = NoSeq]
  /\ fin' = [loc |-> l, ret |-> [data |-> data, err |-> err],
             resp |-> Respond(l.city, data, err), io |-> i, seq |-> seq[r]]

\* rootHandler, any method but POST: the form is rendered.
GetForm(r, method) ==
  /\ Accepts(r)
  /\ Renders(method)
  /\ posted' = posted + 1
  /\ \E parsed \in BOOLEAN :
       fin' = [NoFin EXCEPT !.loc.method = method,
                            !.ret.err = IF parsed THEN "none" ELSE "template",
                            !.resp = RenderForm(parsed)]
  /\ UNCHANGED <<store, now, pc, loc, io, seq, wlog, proc>>

\* rootHandler, POST, up to the cache read: getWeatherData normalises the
\* city and returns at once when nothing is left of it.
Post(r, method, city) ==
  /\ Accepts(r)
  /\ ~Renders(method)
  /\ posted' = posted + 1
  /\ LET key == Normalize(city)
         l == [NoLoc EXCEPT !.method = method, !.city = city, !.key = key]
         alone == \A o \in Reqs \ {r} : Free(o)
         follows == /\ alone
                    /\ fin.loc.method = "POST"
                    /\ fin.seq.solo
                    /\ fin.loc.key = key
     IN IF KeyRejected(key)
          THEN /\ fin' = [loc |-> l, ret |-> [data |-> "", err |-> "empty"],
                          resp |-> Respond(city, "", "empty"), io |-> NoIO,
                          seq |-> NoSeq]
               /\ UNCHANGED <<pc, loc, io, seq>>
          ELSE /\ pc' = [pc EXCEPT ![r] = "read"]
               /\ loc' = [loc EXCEPT ![r] = l]
               /\ seq' = [o \in Reqs |->
                            IF o = r
                              THEN [some |-> follows,
                                    ok |-> (follows /\ fin.ret.err = "nil"
                                            /\ fin.ret.data # ""),
                                    ups |-> IF follows THEN fin.io.ups ELSE 0,
                                    solo |-> alone,
                                    start |-> IF follows THEN fin.seq.start
                                                         ELSE now,
                                    pans |-> IF follows THEN fin.io.ans
                                                        ELSE "none",
                                    prdok |-> (follows /\ fin.io.rdok),
                                    clean |-> (follows /\ ~fin.io.early
                                               /\ ~fin.io.raced)]
                              ELSE NoSeq]
               /\ UNCHANGED <<io, fin>>
  /\ UNCHANGED <<store, now, wlog, proc>>

\* val, _ := rdb.Get(ctx, city).Result(); a hit returns the value.
CacheRead(r) ==
  /\ pc[r] = "read"
  /\ \E ok \in BOOLEAN :
       LET k == loc[r].key
           val == GetResult(store, k, now, ok)
           e == store[k]
           l == [loc[r] EXCEPT !.val = val]
           i == [io[r] EXCEPT !.reads = @ + 1,
                              !.steps = Append(@, "read"),
                              !.rkey = k,
                              !.rdok = ok,
                              !.held = Live(e, now),
                              !.seen = IF Live(e, now) THEN e.val ELSE "",
                              !.fresh = (wlog[k].n > 0
                                         /\ now < wlog[k].at + Hour),
                              !.wval = wlog[k].val,
                              !.stale = (wlog[k].n > 0
                                         /\ now >= wlog[k].at + Hour),
                              !.expd = (e.has /\ e.exp # 0
                                        /\ seq[r].start < e.exp
                                        /\ e.exp <= now)]
       IN IF IsHit(val)
            THEN /\ Finish(r, l, i, val, "nil")
                 /\ io' = [io EXCEPT ![r] = NoIO]
            ELSE /\ pc' = [pc EXCEPT ![r] = "fetch"]
                 /\ loc' = [loc EXCEPT ![r] = l]
                 /\ io' = [io EXCEPT ![r] = i]
                 /\ UNCHANGED <<seq, fin>>
  /\ UNCHANGED <<store, now, posted, wlog, proc>>

\* resp, err := http.Get(url); weatherData, err := io.ReadAll(resp.Body)
Upstream(r) ==
  /\ pc[r] = "fetch"
  /\ \E a \in UpstreamAnswers :
       LET l == [loc[r] EXCEPT !.body = a.body]
           i == [io[r] EXCEPT !.ups = @ + 1, !.ans = AnswerKind(a),
                              !.steps = Append(@, "fetch"),
                              !.ukey = PathToken(Url(loc[r].key, "k")),
                              !.ustatus = a.status,
                              !.ubody = a.body]
       IN IF FetchErr(a) # "nil"
            THEN IF Retry(i.ups)
                   THEN /\ io' = [io EXCEPT ![r] = i]
                        /\ UNCHANGED <<pc, loc, seq, fin>>
                   ELSE /\ Finish(r, loc[r], i, "", FetchErr(a))
                        /\ io' = [io EXCEPT ![r] = NoIO]
            ELSE /\ pc' = [pc EXCEPT ![r] = "write"]
                 /\ loc' = [loc EXCEPT ![r] = l]
                 /\ io' = [io EXCEPT ![r] = i]
                 /\ UNCHANGED <<seq, fin>>
  /\ UNCHANGED <<store, now, posted, wlog, proc>>

\* err = rdb.Set(ctx, city, string(weatherData), time.Hour).Err()
CacheWrite(r) ==
  /\ pc[r] = "write"
  /\ \E wok \in BOOLEAN :
       LET k == SetKey(loc[r].key)
           body == loc[r].body
           out == AfterSet(body, wok)
           i == [io[r] EXCEPT !.writes = @ + 1, !.wok = wok,
                              !.steps = Append(@, "write"),
                              !.wkey = k,
                              !.dirty = @ \/ wok]
           \* what a request in flight sees of this write
           met(o) ==
             IF loc[o].key # k THEN [io[o] EXCEPT !.dirty = TRUE]
             ELSE IF pc[o] = "read"
                    THEN [io[o] EXCEPT !.dirty = TRUE, !.early = TRUE]
                    ELSE [io[o] EXCEPT !.dirty = TRUE, !.raced = TRUE,
                                       !.rbody = body]
       IN /\ store' = IF wok
                        THEN [store EXCEPT ![k] = SetEntry(body, Expiration, now)]
                        ELSE store
          /\ wlog' = IF wok
                       THEN [wlog EXCEPT ![k] =
                               [n |-> 1, at |-> now, val |-> body,
                                by |-> loc[r].key,
                                from |-> [status |-> io[r].ustatus,
                                          body |-> io[r].ubody,
                                          token |-> io[r].ukey]]]
                       ELSE wlog
          /\ Finish(r, loc[r], i, out.data, out.err)
          /\ io' = [o \in Reqs |->
                      IF o = r THEN NoIO
                      ELSE IF wok /\ InFlight(o)
                             THEN met(o)
                             ELSE io[o]]
  /\ UNCHANGED <<now, posted, proc>>

\* Half an hour passes.
Tick ==
  /\ proc.state = "serving"
  /\ now < MaxTime
  /\ now' = now + 1
  /\ UNCHANGED <<store, posted, pc, loc, io, seq, wlog, fin, proc>>

Next ==
  \/ Start
  \/ \E r \in Reqs : \E m \in Methods : GetForm(r, m)
  \/ \E r \in Reqs : \E m \in Methods : \E city \in Cities : Post(r, m, city)
  \/ \E r \in Reqs : CacheRead(r)
  \/ \E r \in Reqs : Upstream(r)
  \/ \E r \in Reqs : CacheWrite(r)
  \/ Tick

Spec == Init /\ [][Next]_vars


\* ------------------------------------------------------------ properties
\* The request answered last was a lookup that reached the cache read.
Looked == fin.loc.method = "POST" /\ fin.io.reads >= 1

\* It was answered from the cache.
WasHit == Looked /\ fin.io.ups = 0 /\ fin.ret.err = "nil"

\* Request r is answered in this step (fin' describes it).
Ends(r) == pc[r] # "idle" /\ pc'[r] = "idle"

\* C1 (as stated): whenever the store holds a non-empty value for the
\* normalised key when the request reads it, the request returns exactly
\* that value with no error, issues no upstream request and writes nothing.
C1_HitWheneverHeld ==
  (Looked /\ fin.io.held /\ fin.io.seen # "")
    => /\ fin.ret = [data |-> fin.io.seen, err |-> "nil"]
       /\ fin.io.ups = 0
       /\ fin.io.writes = 0

\* C1 (amended): whenever the cache read succeeds and returns a non-empty
\* value for the normalised key, the request returns exactly that value with
\* no error, issues no upstream request and writes nothing.
C1_CacheHit ==
  (Looked /\ fin.io.rdok /\ fin.io.held /\ fin.io.seen # "")
    => /\ fin.ret = [data |-> fin.io.seen, err |-> "nil"]
       /\ fin.resp.status = StatusOK
       /\ fin.io.ups = 0
       /\ fin.io.writes = 0
       /\ ~fin.io.wok

C1_Witness ==
  /\ Looked /\ fin.io.rdok /\ fin.io.held
  /\ fin.io.seen = "x"
  /\ fin.ret.data = "x"

\* C2 (as stated): when the cache read misses and the upstream returns a
\* success status, the body is written to the store under the same key with
\* an expiration of one hour and the same body is the result.
C2_SuccessAlwaysStored ==
  [][\A r \in Reqs :
       (Ends(r) /\ fin'.io.reads = 1 /\ fin'.loc.val = ""
          /\ fin'.io.ans \in {"ok", "readerr"})
         => /\ fin'.ret = [data |-> fin'.loc.body, err |-> "nil"]
            /\ fin'.io.writes = 1
            /\ store'[fin'.loc.key]
                 = [has |-> TRUE, val |-> fin'.loc.body, exp |-> now' + Hour]]_vars

\* C2 (amended): when the cache read misses, the upstream returns a success
\* status, its body is read in full and the store write succeeds, the body is
\* in the store under the same key with an expiration of one hour and the
\* same body is the result.
C2_SuccessStored ==
  [][\A r \in Reqs :
       (Ends(r) /\ fin'.io.reads = 1 /\ fin'.loc.val = ""
          /\ fin'.io.ans = "ok" /\ fin'.io.wok)
         => /\ fin'.ret = [data |-> fin'.loc.body, err |-> "nil"]
            /\ fin'.resp.payload = <<fin'.loc.body, fin'.loc.body>>
            /\ fin'.io.writes = 1
            /\ store'[fin'.loc.key]
                 = [has |-> TRUE, val |-> fin'.loc.body, exp |-> now' + Hour]
            /\ \A k \in Keys \ {fin'.loc.key} : store'[k] = store[k]]_vars

C2_Witness ==
  /\ Looked /\ fin.loc.val = "" /\ fin.io.ans = "ok" /\ fin.io.wok
  /\ fin.loc.body = "x"
  /\ store[fin.loc.key].val = "x"

\* C3: when the cache read misses and the upstream call fails (network error
\* or non-success status), the request returns a failure and writes nothing,
\* and no store entry was written while a request that ran alone was served.
C3_UpstreamFailure ==
  (Looked /\ fin.io.ans \in {"neterr", "status"})
    => /\ fin.ret.err # "nil"
       /\ fin.ret.data = ""
       /\ fin.resp.status # StatusOK
       /\ fin.io.writes = 0
       /\ ~fin.io.wok
       /\ (fin.seq.solo => ~fin.io.dirty)

C3_Witness ==
  /\ Looked /\ fin.io.ans = "status" /\ fin.seq.solo
  /\ fin.loc.val = ""
  /\ fin.resp.status = StatusNotFound

\* C4: for every submitted city that is empty or whitespace-only after
\* trimming, the lookup is not performed: the request ends with a
\* client-error status and issues no store read, no store write and no
\* upstream call.
C4_EmptyInput ==
  (fin.loc.method = "POST" /\ TrimSpace(fin.loc.city) = <<>>)
    => /\ fin.resp.status \in 400..499
       /\ fin.ret.err = "empty"
       /\ fin.io.reads = 0
       /\ fin.io.ups = 0
       /\ fin.io.writes = 0

C4_Witness ==
  /\ fin.loc.method = "POST"
  /\ fin.loc.city = <<" ">>
  /\ fin.resp.status = StatusNotFound


\* C5 (as stated): two lookups of one key made one after the other, with no
\* expiration in between, issue at most one upstream call in total, and the
\* second is a cache hit.
C5_SecondAlwaysHits ==
  (Looked /\ fin.seq.some /\ fin.seq.solo /\ ~fin.io.expd)
    => /\ fin.seq.ups + fin.io.ups <= 1
       /\ WasHit

\* C5 (amended): when a lookup of a key returned a non-empty payload, a
\* second lookup of that key made right after it, with no expiration in
\* between and a successful cache read, is a cache hit, and the two issue at
\* most one upstream call in total.
C5_SecondHits ==
  (Looked /\ fin.seq.some /\ fin.seq.solo /\ ~fin.io.expd
     /\ fin.seq.ok /\ fin.io.rdok)
    => /\ fin.seq.ups + fin.io.ups <= 1
       /\ fin.io.ups = 0
       /\ WasHit
       /\ fin.ret.data = fin.io.seen

C5_Witness ==
  /\ Looked /\ fin.seq.some /\ fin.seq.solo /\ ~fin.io.expd
  /\ fin.seq.ok /\ fin.io.rdok
  /\ fin.seq.ups = 1
  /\ WasHit

\* C6 (as stated): a value the service wrote to the store under a key with
\* the one hour expiration is returned verbatim by a lookup of that key whose
\* cache read is made before the hour has passed.
C6_RoundTripAlways ==
  (Looked /\ fin.io.fresh)
    => fin.ret = [data |-> fin.io.wval, err |-> "nil"]

\* C6 (amended): a non-empty value the service wrote to the store under a
\* key with the one hour expiration is returned verbatim by a lookup of that
\* key whose cache read is made before the hour has passed and succeeds.
C6_RoundTrip ==
  (Looked /\ fin.io.fresh /\ fin.io.wval # "" /\ fin.io.rdok)
    => /\ fin.ret = [data |-> fin.io.wval, err |-> "nil"]
       /\ fin.resp.payload = <<fin.io.wval, fin.io.wval>>
       /\ fin.io.ups = 0

C6_Witness ==
  /\ Looked /\ fin.io.fresh /\ fin.io.rdok
  /\ fin.io.wval = "x"
  /\ fin.ret.data = "x"
  /\ now > wlog[fin.loc.key].at

\* C7 (as stated): a lookup whose cache read is made after the expiration of
\* the entry has elapsed never returns the stale value; it results in
\* exactly one upstream call and a fresh store write for the key.
C7_ExpiredAlwaysRewritten ==
  (Looked /\ fin.io.stale)
    => /\ fin.loc.val = ""
       /\ fin.io.ups = 1
       /\ fin.io.writes = 1
       /\ fin.io.wok

\* C7 (amended): a lookup whose cache read is made after the expiration of
\* the entry has elapsed never returns the stale value from the store; it
\* issues exactly one upstream call, and issues one store write for the key
\* exactly when the upstream answered with a success status and its body was
\* read; it returns a payload only when that write succeeded.
C7_Expired ==
  (Looked /\ fin.io.stale)
    => /\ fin.loc.val = ""
       /\ fin.io.ups = 1
       /\ fin.io.writes = (IF fin.io.ans = "ok" THEN 1 ELSE 0)
       /\ (fin.ret.err = "nil"
             => fin.io.wok /\ fin.ret.data = fin.loc.body)

C7_Witness ==
  /\ Looked /\ fin.io.stale /\ fin.io.rdok
  /\ fin.io.wval = "x"
  /\ fin.io.ans = "ok" /\ fin.io.wok
  /\ fin.ret.err = "nil"

\* C8: when the upstream fetch succeeded but the store write fails, the
\* lookup returns a failure and the request is answered with an error that
\* carries no payload.
C8_WriteFailure ==
  (Looked /\ fin.io.ans = "ok" /\ fin.io.writes >= 1 /\ ~fin.io.wok)
    => /\ fin.ret.err # "nil"
       /\ fin.ret.data = ""
       /\ fin.resp.status # StatusOK
       /\ fin.resp.payload = <<>>

C8_Witness ==
  /\ Looked /\ fin.io.ans = "ok" /\ fin.io.writes = 1 /\ ~fin.io.wok
  /\ fin.loc.body = "x"
  /\ fin.resp.status = StatusNotFound

\* The lookup of the request answered last failed: its input was empty, its
\* upstream call or body read failed, or its store write failed.
LookupFailed ==
  /\ fin.loc.method = "POST"
  /\ \/ TrimSpace(fin.loc.city) = <<>>
     \/ fin.io.ans \in {"neterr", "status", "readerr"}
     \/ (fin.io.writes >= 1 /\ ~fin.io.wok)

InvalidResponse == Respond(<<>>, "", "empty")

\* C10: every request whose city is non-empty after trimming ends either
\* with the payload and status 200 or with a failure the caller can tell
\* apart from the answer to an empty city.
C10_Distinguishable ==
  (fin.loc.method = "POST" /\ TrimSpace(fin.loc.city) # <<>>)
    => \/ (fin.resp.status = StatusOK /\ fin.resp.payload # <<>>)
       \/ fin.resp # InvalidResponse

\* The submitted city carries markup or nothing but special characters.
IsMarkup(city) ==
  /\ city # <<>>
  /\ \E n \in 1..Len(city) : city[n] \in {"<", ">", "&", "'", "\""}

\* C11: a POST whose city is markup or consists of special characters is
\* answered with an error status and never with 200, whatever the cache
\* holds and whatever the upstream answers.
C11_InvalidRejected ==
  (fin.loc.method = "POST" /\ IsMarkup(fin.loc.city))
    => /\ fin.resp.status # StatusOK
       /\ fin.resp.status >= 400

\* C12 (as stated): a GET is answered with the input form and status 200
\* and performs no store read, no store write and no upstream call.
C12_GetAlwaysForm ==
  fin.loc.method = "GET"
    => /\ fin.resp.status = StatusOK
       /\ fin.resp.text = "index.html"
       /\ fin.io.reads = 0 /\ fin.io.ups = 0 /\ fin.io.writes = 0

\* C12 (amended): a GET is answered with status 200, with the input form
\* when the template index.html can be parsed and with an empty body when
\* it cannot, and performs no store read, no store write and no upstream
\* call.
C12_GetForm ==
  fin.loc.method = "GET"
    => /\ fin.resp.status = StatusOK
       /\ fin.resp.payload = <<>>
       /\ fin.resp.text = (IF fin.ret.err = "template" THEN "" ELSE "index.html")
       /\ fin.io.reads = 0 /\ fin.io.ups = 0 /\ fin.io.writes = 0
       /\ \A k \in Keys : wlog[k].n = 0 \/ posted > 1

C12_Witness ==
  /\ fin.loc.method = "GET"
  /\ fin.resp.status = StatusOK
  /\ fin.resp.text = "index.html"
  /\ posted = 1

\* A request has been taken on.
Served == posted > 0 \/ \E r \in Reqs : InFlight(r)

\* C13: the process serves requests only when the store connection was
\* established (REDIS_URL set, ping answered) and the API key is non-empty;
\* when either is missing it has exited and no request is ever handled.
C13_StartupGate ==
  /\ (proc.state = "serving" \/ Served)
       => (proc.env.url /\ proc.env.ping /\ proc.env.key)
  /\ (proc.state # "start" /\ ~(proc.env.url /\ proc.env.ping /\ proc.env.key))
       => (proc.state = "exited" /\ ~Served /\ fin = NoFin)

C13_Witness ==
  /\ proc.state = "exited"
  /\ proc.env.url /\ ~proc.env.ping /\ proc.env.key

C13_WitnessServing ==
  /\ proc.state = "serving"
  /\ Served

\* The request answered last wrote the store, after another request for the
\* same key had written it while this one was between its read and its write.
WonRace == Looked /\ fin.io.raced /\ fin.io.writes = 1 /\ fin.io.wok

\* C14: two requests for one uncached key that run together may both call
\* the upstream and both write the store; the store then holds the value of
\* the write that came last, and each caller is returned the body of its own
\* upstream call.
C14_LastWriteWins ==
  /\ WonRace
       => /\ store[fin.loc.key].val = fin.loc.body
          /\ fin.loc.val = ""
          /\ fin.io.ups = 1
          /\ fin.ret = [data |-> fin.loc.body, err |-> "nil"]
  /\ (Looked /\ fin.io.wok) => fin.ret.data = fin.loc.body
  /\ \A k \in Keys :
       wlog[k].n > 0 => (store[k].has /\ store[k].val = wlog[k].val)

C14_Witness ==
  /\ WonRace
  /\ fin.io.rbody = ""
  /\ fin.loc.body = "x"
  /\ store[fin.loc.key].val = "x"
  /\ \A r \in Reqs : Free(r)

\* The steps a lookup can have made, in their order.
StepOrder == <<"read", "fetch", "write">>

\* C15: within one request the steps are strictly sequential: the upstream
\* is called only after the cache read of that request missed, and the store
\* is written only after its upstream call answered with success and the
\* body was read; no request writes the store without having fetched.
C15_StepOrder ==
  /\ fin.io.steps = SubSeq(StepOrder, 1, Len(fin.io.steps))
  /\ fin.io.ups >= 1 => (fin.io.reads >= 1 /\ fin.loc.val = "")
  /\ fin.io.writes >= 1 => (fin.io.ups >= 1 /\ fin.io.ans = "ok")
  /\ \A r \in Reqs :
       /\ io[r].steps = SubSeq(StepOrder, 1, Len(io[r].steps))
       /\ pc[r] = "fetch" => (io[r].steps = <<"read">> /\ loc[r].val = "")
       /\ pc[r] = "write" => (io[r].steps = <<"read", "fetch">>
                              /\ loc[r].val = "" /\ io[r].ans = "ok")

C15_Witness ==
  /\ Looked
  /\ fin.io.steps = StepOrder
  /\ fin.io.ans = "ok"
  /\ fin.loc.val = ""

\* C16: in every request, whatever the outcome of each step, at most one
\* store read, at most one upstream call and at most one store write are
\* issued.
C16_NoRetries ==
  /\ fin.io.reads <= 1 /\ fin.io.ups <= 1 /\ fin.io.writes <= 1
  /\ Len(fin.io.steps) = fin.io.reads + fin.io.ups + fin.io.writes
  /\ \A r \in Reqs :
       /\ io[r].reads <= 1 /\ io[r].ups <= 1 /\ io[r].writes <= 1
       /\ Len(io[r].steps) = io[r].reads + io[r].ups + io[r].writes

C16_Witness ==
  /\ Looked
  /\ ~fin.io.rdok
  /\ fin.io.ans = "neterr"
  /\ fin.io.reads = 1 /\ fin.io.ups = 1 /\ fin.io.writes = 0

\* The request answered last came right after a lookup of the same key that
\* ended in an upstream failure, and no other request wrote the key.
AfterFailure ==
  /\ Looked /\ fin.seq.some
  /\ fin.seq.pans \in {"neterr", "status", "readerr"}
  /\ fin.seq.clean /\ ~fin.io.early

\* C17 (as stated): after a lookup of a key that ended in an upstream
\* failure, the next lookup of that key, with nothing else writing the key,
\* again misses the cache and calls the upstream.
C17_AlwaysMissesAgain ==
  AfterFailure => (fin.loc.val = "" /\ fin.io.ups = 1)

\* C17 (amended): after a lookup of a key whose cache read succeeded and
\* found nothing and that ended in an upstream failure, the next lookup of
\* that key, with nothing else writing the key, again misses the cache and
\* calls the upstream.
C17_MissesAgain ==
  (AfterFailure /\ fin.seq.prdok)
    => /\ fin.loc.val = ""
       /\ fin.io.seen = ""
       /\ fin.io.ups = 1

C17_Witness ==
  /\ AfterFailure /\ fin.seq.prdok
  /\ fin.seq.pans = "status"
  /\ fin.io.rdok
  /\ fin.io.ups = 1

C19_SingleKey ==
  Looked
    => /\ fin.io.rkey = Normalize(fin.loc.city)
       /\ fin.io.ups >= 1 => fin.io.ukey = fin.io.rkey
       /\ fin.io.writes >= 1 => fin.io.wkey = fin.io.rkey
       /\ (fin.io.writes >= 1 /\ fin.io.wok)
            => store[fin.io.rkey].val = fin.loc.body

C19_Witness ==
  /\ Looked
  /\ fin.loc.city = <<" ", "<">>
  /\ fin.io.writes = 1 /\ fin.io.wok
  /\ fin.io.ukey = fin.io.wkey
  /\ fin.io.wkey = <<"%", "2", "6", "l", "t", "%", "3", "B">>

\* ------------------------------------------- the revision at src/main.go
\* RootHandler of that revision escapes the city and hands it to
\* getWeatherData, which reads the store under it as it is: no trimming, no
\* query escaping, no check for the empty city.
OldKey(city) == EscapeString(city)

OldKeys == { OldKey(c) : c \in Cities }

\* rdb.Get(ctx, city).Result(): the value and a nil error when the key is
\* present, redis.Nil when it is absent, another error when the command
\* failed.
OldGet(st, k, t, ok) ==
  IF ~ok THEN [val |-> "", err |-> "conn"]
  ELSE IF Live(st[k], t) THEN [val |-> st[k].val, err |-> "nil"]
  ELSE [val |-> "", err |-> "redis.Nil"]

\* if err != redis.Nil { return "", err } else if val != "" { return val, nil }
OldAfterGet(g) ==
  IF g.err # "redis.Nil" THEN [done |-> TRUE, data |-> "", err |-> g.err]
  ELSE IF g.val # "" THEN [done |-> TRUE, data |-> g.val, err |-> "nil"]
  ELSE [done |-> FALSE, data |-> "", err |-> "nil"]

\* The rest of getWeatherData: an error of http.Get or a status other than
\* 200 is an error, anything else is "", nil.
OldFetchErr(a) ==
  IF a.neterr THEN "upstream"
  ELSE IF a.status # StatusOK THEN "upstream"
  ELSE "nil"

\* RootHandler: 404 "City not found" on an error, else "City: <city>" (the
\* data goes to the standard output only).
OldRespond(city, data, err) ==
  IF err # "nil"
    THEN [status |-> StatusNotFound, ctype |-> "text/plain; charset=utf-8",
          text |-> "City not found", payload |-> <<>>, echo |-> <<>>]
    ELSE [status |-> StatusOK, ctype |-> "text/plain; charset=utf-8",
          text |-> "City: ", payload |-> <<>>, echo |-> EscapeString(city)]

\* The server of that revision is listening; the store holds the entries
\* the test put there with expiration 0.
OldInit ==
  /\ \E S \in SUBSET (OldKeys \ { <<>> }) :
       store = [k \in OldKeys |->
                  IF k \in S THEN SetEntry(SeedValue, 0, 0) ELSE NoEntry]
  /\ now = 0
  /\ posted = 0
  /\ pc = [r \in Reqs |-> "idle"]
  /\ loc = [r \in Reqs |-> NoLoc]
  /\ io = [r \in Reqs |-> NoIO]
  /\ seq = [r \in Reqs |-> NoSeq]
  /\ wlog = [k \in OldKeys |-> NoWrite]
  /\ fin = NoFin
  /\ proc = [env |-> [url |-> TRUE, ping |-> TRUE, key |-> TRUE],
             state |-> "serving"]

OldFinish(r, l, i, data, err) ==
  /\ pc' = [pc EXCEPT ![r] = "idle"]
  /\ loc' = [loc EXCEPT ![r] = NoLoc]
  /\ io' = [io EXCEPT ![r] = NoIO]
  /\ fin' = [loc |-> l, ret |-> [data |-> data, err |-> err],
             resp |-> OldRespond(l.city, data, err), io |-> i, seq |-> NoSeq]

\* RootHandler, POST, up to the cache read.
OldPost(r, method, city) ==
  /\ Accepts(r)
  /\ ~Renders(method)
  /\ posted' = posted + 1
  /\ pc' = [pc EXCEPT ![r] = "read"]
  /\ loc' = [loc EXCEPT ![r] = [NoLoc EXCEPT !.method = method,
                                             !.city = city,
                                             !.key = OldKey(city)]]
  /\ UNCHANGED <<store, now, io, seq, wlog, fin, proc>>

\* val, err := rdb.Get(ctx, city).Result() and the two returns after it.
OldCacheRead(r) ==
  /\ pc[r] = "read"
  /\ \E ok \in BOOLEAN :
       LET k == loc[r].key
           g == OldGet(store, k, now, ok)
           out == OldAfterGet(g)
           l == [loc[r] EXCEPT !.val = g.val]
           i == [io[r] EXCEPT !.reads = @ + 1,
                              !.steps = Append(@, "read"),
                              !.rkey = k,
                              !.rdok = ok,
                              !.held = Live(store[k], now),
                              !.seen = IF Live(store[k], now)
                                         THEN store[k].val ELSE ""]
       IN IF out.done
            THEN OldFinish(r, l, i, out.data, out.err)
            ELSE /\ pc' = [pc EXCEPT ![r] = "fetch"]
                 /\ loc' = [loc EXCEPT ![r] = l]
                 /\ io' = [io EXCEPT ![r] = i]
                 /\ UNCHANGED fin
  /\ UNCHANGED <<store, now, posted, seq, wlog, proc>>

\* r, err := http.Get(url) and the returns after it; nothing is stored.
OldUpstream(r) ==
  /\ pc[r] = "fetch"
  /\ \E a \in UpstreamAnswers :
       LET i == [io[r] EXCEPT !.ups = @ + 1, !.ans = AnswerKind(a),
                              !.steps = Append(@, "fetch"),
                              !.ukey = PathToken(Url(loc[r].key, "k"))]
       IN OldFinish(r, loc[r], i, "", OldFetchErr(a))
  /\ UNCHANGED <<store, now, posted, seq, wlog, proc>>

OldNext ==
  \/ \E r \in Reqs : \E m \in Methods : \E city \in Cities : OldPost(r, m, city)
  \/ \E r \in Reqs : OldCacheRead(r)
  \/ \E r \in Reqs : OldUpstream(r)

SpecOld == OldInit /\ [][OldNext]_vars

\* C20: in the revision at src/main.go, getWeatherData called for a city
\* whose value is present and non-empty in the store, the read of which
\* succeeds, returns that stored value with a nil error.
C20_StoredValueReturned ==
  (Looked /\ fin.io.rdok /\ fin.io.held /\ fin.io.seen # "")
    => fin.ret = [data |-> fin.io.seen, err |-> "nil"]

\* What that revision does return for such a city.
C20_StoredValueDropped ==
  (Looked /\ fin.io.rdok /\ fin.io.held /\ fin.io.seen # "")
    => /\ fin.ret = [data |-> "", err |-> "nil"]
       /\ fin.io.ups = 0

\* What the service answers a failed lookup with, and what the upstream
\* sends with a status that is not a success.
FailureTexts == {"City not found", "e"}

\* C21: in every reachable state, each value the service has written to the
\* store under key k is the body of a success-status upstream response that
\* the writing request obtained for k; error responses and failure messages
\* are never written to the store.
C21_StoreContent ==
  \A k \in Keys :
    wlog[k].n > 0
      => /\ store[k].has
         /\ wlog[k].from.status = StatusOK
         /\ wlog[k].from.token = k
         /\ store[k].val = wlog[k].from.body
         /\ store[k].val \notin FailureTexts

C21_Witness ==
  /\ \E k \in Keys :
       /\ wlog[k].n > 0
       /\ store[k].val = "x"
       /\ wlog[k].from = [status |-> StatusOK, body |-> "x", token |-> k]
  /\ Looked /\ fin.io.ans = "status" /\ fin.io.ubody = "e"

\* Entries a key can hold before the service has written it.
Untouched(k) ==
  IF k \in SeedKeys THEN {NoEntry, SetEntry(SeedValue, 0, 0)} ELSE {NoEntry}

\* C22: a request for key k reads and writes only the store entry of k;
\* under any interleaving of concurrent requests the entries of all keys
\* that no request asked for are unchanged.
C22_KeyIsolation ==
  /\ \A k \in Keys :
       /\ wlog[k].n = 0 => store[k] \in Untouched(k)
       /\ wlog[k].n > 0 => wlog[k].by = k
  /\ \A r \in Reqs :
       /\ io[r].reads >= 1 => io[r].rkey = loc[r].key
  /\ Looked
       => /\ fin.io.rkey = fin.loc.key
          /\ fin.io.writes >= 1 => fin.io.wkey = fin.loc.key

C22_Witness ==
  /\ Looked /\ fin.io.wok
  /\ fin.loc.key # <<"a">>
  /\ store[<<"a">>] = SetEntry(SeedValue, 0, 0)
  /\ wlog[<<"a">>].n = 0
  /\ \E r \in Reqs : pc[r] = "write" /\ loc[r].key = <<"a">>

\* C23: when the cache read fails for any reason, the request does not fail
\* at that point; it goes on to the upstream call exactly as on a miss.
C23_ReadErrorIsMiss ==
  /\ (Looked /\ ~fin.io.rdok)
       => /\ fin.loc.val = ""
          /\ fin.io.ups = 1
          /\ fin.io.steps[2] = "fetch"
          /\ (fin.ret.err = "nil" <=> (fin.io.ans = "ok" /\ fin.io.wok))
  /\ \A r \in Reqs :
       (io[r].reads = 1 /\ ~io[r].rdok) => pc[r] \in {"fetch", "write"}

C23_Witness ==
  /\ Looked /\ ~fin.io.rdok
  /\ fin.io.held /\ fin.io.seen = "s"
  /\ fin.io.ups = 1
  /\ fin.ret = [data |-> "x", err |-> "nil"]

\* ----------------------------------------------------------- completion
\* Each of the cache read, the upstream call and the cache write of a
\* request eventually returns, and the goroutine is scheduled again.
Fairness ==
  \A r \in Reqs :
    /\ WF_vars(CacheRead(r))
    /\ WF_vars(Upstream(r))
    /\ WF_vars(CacheWrite(r))

FairSpec == Spec /\ Fairness

\* The two answers a POST can get.
Payload200 ==
  /\ fin.resp.status = StatusOK
  /\ fin.resp.payload # <<>>
  /\ fin.resp.text = ""

Plain404 ==
  /\ fin.resp.status = StatusNotFound
  /\ fin.resp.payload = <<>>
  /\ fin.resp.text = "City not found"

====
